---------------------------- MODULE Spec2Model ----------------------------
(***************************************************************************)
(* A model of ifacemaker's extraction engine (maker.Maker) and of the      *)
(* caller that drives it.                                                  *)
(*                                                                         *)
(* Text.  Every Go string is a sequence of atoms.  An atom taken from a    *)
(* source file (an identifier, a punctuation mark, a path element) is a    *)
(* one-character string, so that strings.HasSuffix, strings.Split and      *)
(* token.IsExported work on characters as they do in Go.  The literal text *)
(* of a format string of the program is kept as one atom.                  *)
(*                                                                         *)
(* Syntax trees.  A parsed file is a record [Bad, Decls, Imports]; Bad     *)
(* stands for source text that parser.ParseFile rejects.  A declaration is *)
(* a record [Kind, Recv, Name, Params, Results, Doc]; a field list is a    *)
(* sequence of [Names, Type]; a type expression is a record tagged Ident,  *)
(* Star, Sel or Index.  nil field lists and nil comment groups are empty   *)
(* sequences (the code treats them alike); a nil import name is NilIdent.  *)
(*                                                                         *)
(* Not modelled: token.FileSet (positions only), the failure of            *)
(* os.Getwd, the failure of printer.Fprint and of strconv.Unquote on a     *)
(* tree the parser produced, and what the external formatter behind        *)
(* formatCode does to the text it is given.                                *)
(***************************************************************************)
EXTENDS Integers, Sequences, FiniteSets, TLC

VARIABLES
    StructName,                 \* Maker.StructName
    CopyDocs,                   \* Maker.CopyDocs
    Output,                     \* Maker.Output
    PkgNameUsedInSourceStruct,  \* Maker.PkgNameUsedInSourceStruct
    importsByPath,              \* Maker.importsByPath
    importsByAlias,             \* Maker.importsByAlias
    imports,                    \* Maker.imports
    methods,                    \* Maker.methods
    methodNames,                \* Maker.methodNames
    funcDecks,                  \* Maker.funcDecks
    cwd,                        \* the process's working directory (os.Getwd)
    dir,                        \* the directory the caller reads its files from
    pc,                         \* the caller's position
    src,                        \* the file handed to ParseSource
    err,                        \* what the last ParseSource returned
    hasMethods,                 \* ParseSource's local hasMethods when it last returned
    unformatted,                \* the text the last makeInterface built
    nFailed,                    \* ParseSource calls that returned an error
    allFiles,                   \* run's allFiles: the files of -f, in order
    nextFile,                   \* the place in allFiles of the file run reads next
    printed,                    \* what run has printed or written to Output
    runNo,                      \* the first or the second run of the program
    first                       \* how the first run ended

maker == <<StructName, CopyDocs, Output, PkgNameUsedInSourceStruct,
           importsByPath, importsByAlias, imports, methods, methodNames,
           funcDecks>>

runner == <<allFiles, nextFile, printed, runNo, first>>

vars == <<StructName, CopyDocs, Output, PkgNameUsedInSourceStruct,
          importsByPath, importsByAlias, imports, methods, methodNames,
          funcDecks, cwd, dir, pc, src, err, hasMethods, unformatted,
          nFailed, allFiles, nextFile, printed, runNo, first>>

-----------------------------------------------------------------------------
(* Bounds of the model. *)

\* Declarations in one file.
MaxDecls == 2

\* Import specs in one file.
MaxImports == 2

\* Failed ParseSource calls after which the caller stops calling.
MaxFailedCalls == 2

\* Files on the command line of one run.
MaxFiles == 3

-----------------------------------------------------------------------------
(* Text. *)

EmptyStr == << >>

\* strings.HasSuffix
HasSuffix(s, suffix) ==
    /\ Len(suffix) <= Len(s)
    /\ SubSeq(s, Len(s) - Len(suffix) + 1, Len(s)) = suffix

\* strings.Split(s, "."): the pieces between the dots, empty pieces kept.
RECURSIVE Split(_)
Split(s) ==
    IF \A i \in 1..Len(s) : s[i] # "."
    THEN << s >>
    ELSE LET i == CHOOSE k \in 1..Len(s) :
                      s[k] = "." /\ \A j \in 1..(k - 1) : s[j] # "."
         IN << SubSeq(s, 1, i - 1) >> \o Split(SubSeq(s, i + 1, Len(s)))

\* strings.Join(lines, "\n")
RECURSIVE Join(_)
Join(lines) ==
    IF lines = << >> THEN EmptyStr
    ELSE IF Len(lines) = 1 THEN lines[1]
    ELSE lines[1] \o << "\n" >> \o Join(Tail(lines))

\* filepath.Clean of a directory prefix, for paths without "." and ".."
\* elements: trailing separators go, a lone separator stays.
RECURSIVE Clean(_)
Clean(p) ==
    IF p = << >> THEN << "." >>
    ELSE IF Len(p) > 1 /\ p[Len(p)] = "/" THEN Clean(SubSeq(p, 1, Len(p) - 1))
    ELSE p

\* filepath.Dir: all but the last element of the path, cleaned.
Dir(p) ==
    LET slashes == { k \in 1..Len(p) : p[k] = "/" }
        i == IF slashes = {} THEN 0
             ELSE CHOOSE k \in slashes : \A j \in slashes : j <= k
    IN Clean(SubSeq(p, 1, i))

\* strconv.Unquote of an import path literal: the text between the quotes.
Unquote(lit) == SubSeq(lit, 2, Len(lit) - 1)

\* strconv.Quote, as %q applies it to an import path.
Quote(s) == << "\"" >> \o s \o << "\"" >>

\* unicode.IsUpper on the letters the model uses.
Upper == { "A", "B", "C", "O", "T", "W" }

\* A visibility test that lets every name through.
IsExported_Any(name) == Len(name) > 0

\* ast.Ident.IsExported: the name starts with an upper-case letter.
IsExported(name) == Len(name) > 0 /\ name[1] \in Upper

-----------------------------------------------------------------------------
(* Syntax trees. *)

\* A nil *ast.Ident (an import spec without a name).
NilIdent == << "<nil>" >>

Ident(name) == [Tag |-> "Ident", Name |-> name]
Star(x) == [Tag |-> "Star", X |-> x]
Sel(pkg, name) == [Tag |-> "Sel", X |-> pkg, Name |-> name]
Index(x, arg) == [Tag |-> "Index", X |-> x, Arg |-> arg]

Field(names, type) == [Names |-> names, Type |-> type]

\* printer.Fprint of a type expression: the expression as written.
RECURSIVE Fprint(_)
Fprint(e) ==
    CASE e.Tag = "Ident" -> e.Name
      [] e.Tag = "Star"  -> << "*" >> \o Fprint(e.X)
      [] e.Tag = "Sel"   -> e.X \o << "." >> \o e.Name
      [] e.Tag = "Index" -> Fprint(e.X) \o << "[" >> \o e.Arg \o << "]" >>

\* Counting the fields instead of the names they bind.
NumFields_Fields(fl) == Len(fl)

\* ast.FieldList.NumFields: the names of every field, an unnamed field
\* counting once; 0 for a nil list.
RECURSIVE NumFields(_)
NumFields(fl) ==
    IF fl = << >> THEN 0
    ELSE (IF Head(fl).Names = << >> THEN 1 ELSE Len(Head(fl).Names))
         + NumFields(Tail(fl))

-----------------------------------------------------------------------------
(* maker.go *)

EmptyMap == [x \in {} |-> x]

\* The nil error.
Nil == << >>

\* An errorAlias that prints the alias as it is.
errorAlias_Raw(alias) == alias

errorAlias(alias) == IF alias = EmptyStr THEN << "<none>" >> ELSE alias

\* The receiver's type name and whether a declaration came back with it
\* (the second result is nil when ok is FALSE).
getReceiverTypeName(d) ==
    IF d.Kind # "func" THEN [name |-> EmptyStr, ok |-> FALSE]
    ELSE IF NumFields(d.Recv) # 1 THEN [name |-> EmptyStr, ok |-> FALSE]
    ELSE LET t0 == d.Recv[1].Type
             t == IF t0.Tag = "Star" THEN t0.X ELSE t0
         IN IF t.Tag # "Ident" THEN [name |-> EmptyStr, ok |-> FALSE]
            ELSE [name |-> t.Name, ok |-> TRUE]

\* A cleanParams that strips nothing.
cleanParams_Never(param, pkgName) == param

\* Maker.cleanParams; pkgName is m.PkgNameUsedInSourceStruct.
cleanParams(param, pkgName) ==
    LET expl == Split(param)
    IN IF Len(expl) = 2 /\ expl[1] = pkgName THEN expl[2] ELSE param

\* The names of one field, "," between them and " " after the last.
RECURSIVE printNames(_)
printNames(names) ==
    IF names = << >> THEN EmptyStr
    ELSE names[1] \o (IF Len(names) > 1 THEN << "," >> ELSE << " " >>)
         \o printNames(Tail(names))

RECURSIVE printParameters(_, _)
printParameters(fl, pkgName) ==
    IF fl = << >> THEN EmptyStr
    ELSE printNames(Head(fl).Names)
         \o cleanParams(Fprint(Head(fl).Type), pkgName)
         \o (IF Len(fl) > 1 THEN << "," >> ELSE EmptyStr)
         \o printParameters(Tail(fl), pkgName)

\* method.Lines
methodLines(m) == m.Docs \o << m.Code >>

\* importedPkg.Lines
importLines(i) == << i.Alias \o << " " >> \o Quote(i.Path) >>

\* The loop over m.imports (lines 201-205).
RECURSIVE importsLines(_)
importsLines(list) ==
    IF list = << >> THEN << >>
    ELSE importLines(Head(list)) \o importsLines(Tail(list))

\* The loop over m.methods (lines 211-213).
RECURSIVE methodsLines(_)
methodsLines(list) ==
    IF list = << >> THEN << >>
    ELSE methodLines(Head(list)) \o methodsLines(Tail(list))

makeInterface(pkgName, ifaceName) ==
    Join(<< << "// Code generated by ifacemaker. DO NOT EDIT." >>,
            EmptyStr,
            << "package " >> \o pkgName,
            << "import (" >> >>
         \o importsLines(imports)
         \o << << ")" >>,
               << "type " >> \o ifaceName \o << " interface {" >> >>
         \o methodsLines(methods)
         \o << << "}" >> >>)

\* A target directory that exists only when -o is given.
targetPath_OnlyWithOutput ==
    IF Output = EmptyStr THEN EmptyStr ELSE Dir(cwd \o << "/" >> \o Output)

\* The directory ParseSource compares import paths with (lines 52-57).
targetPath == Dir(cwd \o << "/" >> \o Output)

\* A scan that counts a file as having methods only for names not yet
\* collected.
scanDecl_NewOnly(acc, d, names) ==
    LET r == getReceiverTypeName(d)
    IN IF r.name # StructName THEN acc
       ELSE IF ~IsExported(d.Name) THEN acc
       ELSE IF d.Name \in names THEN acc
       ELSE [hasMethods |-> TRUE, funcDecks |-> Append(acc.funcDecks, d)]

\* One iteration of the loop over the file's declarations (lines 78-91);
\* names is m.methodNames, which the loop only reads.
scanDecl(acc, d, names) ==
    LET r == getReceiverTypeName(d)
    IN IF r.name # StructName THEN acc
       ELSE IF ~IsExported(d.Name) THEN acc
       ELSE IF d.Name \in names THEN [acc EXCEPT !.hasMethods = TRUE]
       ELSE [hasMethods |-> TRUE, funcDecks |-> Append(acc.funcDecks, d)]

RECURSIVE scanDecls(_, _, _)
scanDecls(acc, decls, names) ==
    IF decls = << >> THEN acc
    ELSE scanDecls(scanDecl(acc, Head(decls), names), Tail(decls), names)

\* A self-import test that wants the whole target directory.
selfImport_Exact(path) == path = targetPath

\* Whether ParseSource takes an import path for the package the interface is
\* written into (line 121).
selfImport(path) == HasSuffix(targetPath, path)

\* An alias test that takes "no alias" for an alias.
aliasInUse_EmptyToo(reg, alias) == alias \in DOMAIN reg.byAlias

\* An alias test that never finds an alias taken.
aliasInUse_Never(reg, alias) == FALSE

\* Whether a new path's alias is taken (lines 136-137).
aliasInUse(reg, alias) == alias # EmptyStr /\ alias \in DOMAIN reg.byAlias

\* An import loop that takes "." for an alias like any other.
registerImport_DotAsAlias(reg, imp) ==
    LET alias == IF imp.Name # NilIdent THEN imp.Name ELSE EmptyStr
        path == Unquote(imp.Path)
        pkg == [Path |-> path, Alias |-> alias]
    IN IF selfImport(path)
       THEN IF alias # EmptyStr THEN [reg EXCEPT !.pkgName = alias] ELSE reg
       ELSE IF path \in DOMAIN reg.byPath /\ reg.byPath[path].Alias # alias
       THEN [reg EXCEPT !.err =
                << "Package " >> \o Quote(path)
                \o << " imported multiple times with different aliases: " >>
                \o errorAlias(reg.byPath[path].Alias) \o << ", " >>
                \o errorAlias(alias)]
       ELSE IF path \notin DOMAIN reg.byPath
       THEN IF aliasInUse(reg, alias)
            THEN [reg EXCEPT !.err =
                     << "Import alias " >> \o alias \o << " already in use" >>]
            ELSE [reg EXCEPT !.byPath = (path :> pkg) @@ @,
                             !.byAlias = (alias :> pkg) @@ @,
                             !.imports = Append(@, pkg)]
       ELSE reg

\* An import loop that appends a registered path it meets again.
registerImport_Reappend(reg, imp) ==
    LET alias == IF imp.Name # NilIdent THEN imp.Name ELSE EmptyStr
        path == Unquote(imp.Path)
        pkg == [Path |-> path, Alias |-> alias]
    IN IF alias = << "." >> THEN reg
       ELSE IF selfImport(path)
       THEN IF alias # EmptyStr THEN [reg EXCEPT !.pkgName = alias] ELSE reg
       ELSE IF path \in DOMAIN reg.byPath /\ reg.byPath[path].Alias # alias
       THEN [reg EXCEPT !.err =
                << "Package " >> \o Quote(path)
                \o << " imported multiple times with different aliases: " >>
                \o errorAlias(reg.byPath[path].Alias) \o << ", " >>
                \o errorAlias(alias)]
       ELSE IF path \notin DOMAIN reg.byPath
       THEN IF aliasInUse(reg, alias)
            THEN [reg EXCEPT !.err =
                     << "Import alias " >> \o alias \o << " already in use" >>]
            ELSE [reg EXCEPT !.byPath = (path :> pkg) @@ @,
                             !.byAlias = (alias :> pkg) @@ @,
                             !.imports = Append(@, pkg)]
       ELSE [reg EXCEPT !.imports = Append(@, pkg)]

\* An import loop that puts a new import first in the list.
registerImport_Prepend(reg, imp) ==
    LET alias == IF imp.Name # NilIdent THEN imp.Name ELSE EmptyStr
        path == Unquote(imp.Path)
        pkg == [Path |-> path, Alias |-> alias]
    IN IF alias = << "." >> THEN reg
       ELSE IF selfImport(path)
       THEN IF alias # EmptyStr THEN [reg EXCEPT !.pkgName = alias] ELSE reg
       ELSE IF path \in DOMAIN reg.byPath /\ reg.byPath[path].Alias # alias
       THEN [reg EXCEPT !.err =
                << "Package " >> \o Quote(path)
                \o << " imported multiple times with different aliases: " >>
                \o errorAlias(reg.byPath[path].Alias) \o << ", " >>
                \o errorAlias(alias)]
       ELSE IF path \notin DOMAIN reg.byPath
       THEN IF aliasInUse(reg, alias)
            THEN [reg EXCEPT !.err =
                     << "Import alias " >> \o alias \o << " already in use" >>]
            ELSE [reg EXCEPT !.byPath = (path :> pkg) @@ @,
                             !.byAlias = (alias :> pkg) @@ @,
                             !.imports = << pkg >> \o @]
       ELSE reg

\* One iteration of the loop over the file's imports (lines 99-149).
registerImport(reg, imp) ==
    LET alias == IF imp.Name # NilIdent THEN imp.Name ELSE EmptyStr
        path == Unquote(imp.Path)
        pkg == [Path |-> path, Alias |-> alias]
    IN IF alias = << "." >> THEN reg
       ELSE IF selfImport(path)
       THEN IF alias # EmptyStr THEN [reg EXCEPT !.pkgName = alias] ELSE reg
       ELSE IF path \in DOMAIN reg.byPath /\ reg.byPath[path].Alias # alias
       THEN [reg EXCEPT !.err =
                << "Package " >> \o Quote(path)
                \o << " imported multiple times with different aliases: " >>
                \o errorAlias(reg.byPath[path].Alias) \o << ", " >>
                \o errorAlias(alias)]
       ELSE IF path \notin DOMAIN reg.byPath
       THEN IF aliasInUse(reg, alias)
            THEN [reg EXCEPT !.err =
                     << "Import alias " >> \o alias \o << " already in use" >>]
            ELSE [reg EXCEPT !.byPath = (path :> pkg) @@ @,
                             !.byAlias = (alias :> pkg) @@ @,
                             !.imports = Append(@, pkg)]
       ELSE reg

\* The loop over the file's imports; it returns at the first error.
RECURSIVE registerImports(_, _)
registerImports(reg, imps) ==
    IF imps = << >> \/ reg.err # Nil THEN reg
    ELSE registerImports(registerImport(reg, Head(imps)), Tail(imps))

\* An addMethod without the look-up in m.methodNames.
addMethod_NoDedup(acc, fd, pkgName) ==
    LET params == printParameters(fd.Params, pkgName)
        ret == printParameters(fd.Results, pkgName)
        code == fd.Name \o << "(" >> \o params \o << ")", " ", "(" >>
                \o ret \o << ")" >>
        docs == IF fd.Doc # << >> /\ CopyDocs THEN fd.Doc ELSE << >>
    IN [names |-> acc.names \cup { fd.Name },
        methods |-> Append(acc.methods, [Code |-> code, Docs |-> docs])]

\* An addMethod that puts the new method first.
addMethod_Prepend(acc, fd, pkgName) ==
    IF fd.Name \in acc.names THEN acc
    ELSE LET params == printParameters(fd.Params, pkgName)
             ret == printParameters(fd.Results, pkgName)
             code == fd.Name \o << "(" >> \o params \o << ")", " ", "(" >>
                     \o ret \o << ")" >>
             docs == IF fd.Doc # << >> /\ CopyDocs THEN fd.Doc ELSE << >>
         IN [names |-> acc.names \cup { fd.Name },
             methods |-> << [Code |-> code, Docs |-> docs] >> \o acc.methods]

\* An addMethod that copies the doc comment whatever CopyDocs says.
addMethod_DocsAlways(acc, fd, pkgName) ==
    IF fd.Name \in acc.names THEN acc
    ELSE LET params == printParameters(fd.Params, pkgName)
             ret == printParameters(fd.Results, pkgName)
             code == fd.Name \o << "(" >> \o params \o << ")", " ", "(" >>
                     \o ret \o << ")" >>
             docs == fd.Doc
         IN [names |-> acc.names \cup { fd.Name },
             methods |-> Append(acc.methods, [Code |-> code, Docs |-> docs])]

\* One iteration of the loop over m.funcDecks (lines 151-179); pkgName is
\* m.PkgNameUsedInSourceStruct as the import loop left it.
addMethod(acc, fd, pkgName) ==
    IF fd.Name \in acc.names THEN acc
    ELSE LET params == printParameters(fd.Params, pkgName)
             ret == printParameters(fd.Results, pkgName)
             code == fd.Name \o << "(" >> \o params \o << ")", " ", "(" >>
                     \o ret \o << ")" >>
             docs == IF fd.Doc # << >> /\ CopyDocs THEN fd.Doc ELSE << >>
         IN [names |-> acc.names \cup { fd.Name },
             methods |-> Append(acc.methods, [Code |-> code, Docs |-> docs])]

RECURSIVE addMethods(_, _, _)
addMethods(acc, decks, pkgName) ==
    IF decks = << >> THEN acc
    ELSE addMethods(addMethod(acc, Head(decks), pkgName), Tail(decks), pkgName)

-----------------------------------------------------------------------------
(* The inputs: the configuration of a run and the files it may be given. *)

T == << "T" >>
int == << "i", "n", "t" >>

\* func (t T) A(x int)                 with a doc comment
fdA1 == [Kind |-> "func", Recv |-> << Field(<< << "t" >> >>, Ident(T)) >>,
         Name |-> << "A" >>, Params |-> << Field(<< << "x" >> >>, Ident(int)) >>,
         Results |-> << >>, Doc |-> << << "// A one" >> >>]

\* func (t *T) A() (int)               without one
fdA2 == [Kind |-> "func", Recv |-> << Field(<< << "t" >> >>, Star(Ident(T))) >>,
         Name |-> << "A" >>, Params |-> << >>,
         Results |-> << Field(<< >>, Ident(int)) >>, Doc |-> << >>]

\* func (*T) B(v, w q.W) (*q.W)        with a two-line doc comment
fdB == [Kind |-> "func", Recv |-> << Field(<< >>, Star(Ident(T))) >>,
        Name |-> << "B" >>,
        Params |-> << Field(<< << "v" >>, << "w" >> >>, Sel(<< "q" >>, << "W" >>)) >>,
        Results |-> << Field(<< >>, Star(Sel(<< "q" >>, << "W" >>))) >>,
        Doc |-> << << "// B one" >>, << "// B two" >> >>]

\* func (t T) c()                      unexported
fdc == [Kind |-> "func", Recv |-> << Field(<< << "t" >> >>, Ident(T)) >>,
        Name |-> << "c" >>, Params |-> << >>, Results |-> << >>, Doc |-> << >>]

\* func (o *O) C()                     a method of another type
fdOther == [Kind |-> "func", Recv |-> << Field(<< << "o" >> >>, Star(Ident(<< "O" >>))) >>,
            Name |-> << "C" >>, Params |-> << >>, Results |-> << >>, Doc |-> << >>]

\* func C()                            no receiver
fdFunc == [Kind |-> "func", Recv |-> << >>,
           Name |-> << "C" >>, Params |-> << >>, Results |-> << >>, Doc |-> << >>]

\* func (a, b T) C()                   two receiver bindings
fdTwo == [Kind |-> "func", Recv |-> << Field(<< << "a" >>, << "b" >> >>, Ident(T)) >>,
          Name |-> << "C" >>, Params |-> << >>, Results |-> << >>, Doc |-> << >>]

\* func (t *T[K]) C()                  a receiver that is no (pointer to a) name
fdIndex == [Kind |-> "func",
            Recv |-> << Field(<< << "t" >> >>, Star(Index(Ident(T), << "K" >>))) >>,
            Name |-> << "C" >>, Params |-> << >>, Results |-> << >>, Doc |-> << >>]

\* type T struct{}                     not a function declaration
genDecl == [Kind |-> "gen"]

Decls == { fdA1, fdA2, fdB, fdc, fdOther, fdFunc, fdTwo, fdIndex, genDecl }

ImportSpec(name, path) == [Name |-> name, Path |-> Quote(path)]

\* import q "p"; r "p"; q "x"
AliasSpecs ==
    { ImportSpec(<< "q" >>, << "p" >>), ImportSpec(<< "r" >>, << "p" >>),
      ImportSpec(<< "q" >>, << "x" >>) }

\* import q "x"; r "x"; "x"; q "y"; "y"; . "x"; q "p"; "p"
ImportSpecs ==
    { ImportSpec(<< "q" >>, << "x" >>), ImportSpec(<< "r" >>, << "x" >>),
      ImportSpec(NilIdent, << "x" >>),  ImportSpec(<< "q" >>, << "y" >>),
      ImportSpec(NilIdent, << "y" >>),  ImportSpec(<< "." >>, << "x" >>),
      ImportSpec(<< "q" >>, << "p" >>), ImportSpec(NilIdent, << "p" >>) }

\* The sequences over S of length at most n.
RECURSIVE SeqsUpTo(_, _)
SeqsUpTo(S, n) ==
    IF n = 0 THEN { << >> }
    ELSE LET shorter == SeqsUpTo(S, n - 1)
         IN shorter \cup { Append(q, x) : q \in shorter, x \in S }

\* Source text the parser rejects.
BadFile == [Bad |-> TRUE, Decls |-> << >>, Imports |-> << >>]

File(decls, imps) == [Bad |-> FALSE, Decls |-> decls, Imports |-> imps]

\* Three directories of source files.  The files of "methods" hold any
\* declarations and import nothing; the files of "imports" hold any imports
\* and declare B or the unexported c; the files of "aliases" declare A or B
\* and import the target's own package "p" as q or as r, and "x" as q.
Files(d) ==
    IF d = "methods"
    THEN { File(decls, << >>) : decls \in SeqsUpTo(Decls, MaxDecls) }
    ELSE IF d = "imports"
    THEN { File(decls, imps) : decls \in { << fdB >>, << fdc >> },
                               imps \in SeqsUpTo(ImportSpecs, MaxImports) }
         \cup { BadFile }
    ELSE { File(decls, imps) : decls \in { << fdA1 >>, << fdB >> },
                               imps \in SeqsUpTo(AliasSpecs, MaxImports) }

NoFile == [Bad |-> FALSE, Decls |-> << >>, Imports |-> << >>, None |-> TRUE]

\* The working directory /w/p.
Cwd == << "/", "w", "/", "p" >>

\* -o absent, and -o o/i.
Outputs == { EmptyStr, << "o", "/", "i" >> }

\* -p and -i.
PkgName == << "m" >>
IfaceName == << "I" >>

NoText == << "<no text>" >>

\* No run has ended yet.
NoOutcome == [text |-> NoText, err |-> << >>, cwd |-> << >>]

\* The runs: -d on and off over "methods", -o absent and given over
\* "imports", -o absent over "aliases".
Configs ==
    { [dir |-> "methods", CopyDocs |-> b, Output |-> EmptyStr] : b \in BOOLEAN }
    \cup { [dir |-> "imports", CopyDocs |-> TRUE, Output |-> o] : o \in Outputs }
    \cup { [dir |-> "aliases", CopyDocs |-> TRUE, Output |-> EmptyStr] }

-----------------------------------------------------------------------------
(* The state machine. *)

\* The Maker as run builds it.
Init ==
    /\ StructName = T
    /\ \E c \in Configs : dir = c.dir /\ CopyDocs = c.CopyDocs /\ Output = c.Output
    /\ PkgNameUsedInSourceStruct = PkgName
    /\ importsByPath = EmptyMap
    /\ importsByAlias = EmptyMap
    /\ imports = << >>
    /\ methods = << >>
    /\ methodNames = {}
    /\ funcDecks = << >>
    /\ cwd = Cwd
    /\ pc = "idle"
    /\ src = NoFile
    /\ err = Nil
    /\ hasMethods = FALSE
    /\ unformatted = NoText
    /\ nFailed = 0
    /\ allFiles = << >>
    /\ nextFile = 1
    /\ printed = NoText
    /\ runNo = 1
    /\ first = NoOutcome

\* The caller reads the next file and calls ParseSource with it.
ReadFile ==
    /\ pc = "idle"
    /\ nFailed < MaxFailedCalls
    /\ \E f \in Files(dir) : src' = f
    /\ pc' = "called"
    /\ unformatted' = NoText
    /\ UNCHANGED << maker, cwd, dir, err, hasMethods, nFailed, runner >>

\* A ParseSource that renders the pending declarations before it looks at
\* the imports.
ParseSource_MethodsFirst ==
    /\ pc = "called"
    /\ pc' = "returned"
    /\ LET names == IF methods = << >> THEN {} ELSE methodNames
           scan == scanDecls([hasMethods |-> FALSE, funcDecks |-> funcDecks],
                             src.Decls, names)
           reg == registerImports(
                      [byPath |-> importsByPath, byAlias |-> importsByAlias,
                       imports |-> imports,
                       pkgName |-> PkgNameUsedInSourceStruct, err |-> Nil],
                      src.Imports)
           added == addMethods([names |-> names, methods |-> methods],
                               scan.funcDecks, reg.pkgName)
       IN IF src.Bad
          THEN /\ err' = << "parsing file failed" >>
               /\ hasMethods' = FALSE
               /\ methodNames' = names
               /\ UNCHANGED << importsByPath, importsByAlias, imports,
                               PkgNameUsedInSourceStruct, methods, funcDecks >>
          ELSE IF ~scan.hasMethods
          THEN /\ err' = Nil
               /\ hasMethods' = FALSE
               /\ methodNames' = names
               /\ funcDecks' = scan.funcDecks
               /\ UNCHANGED << importsByPath, importsByAlias, imports,
                               PkgNameUsedInSourceStruct, methods >>
          ELSE /\ hasMethods' = TRUE
               /\ funcDecks' = scan.funcDecks
               /\ importsByPath' = reg.byPath
               /\ importsByAlias' = reg.byAlias
               /\ imports' = reg.imports
               /\ PkgNameUsedInSourceStruct' = reg.pkgName
               /\ err' = reg.err
               /\ methodNames' = added.names /\ methods' = added.methods
    /\ nFailed' = IF err' # Nil THEN nFailed + 1 ELSE nFailed
    /\ UNCHANGED << StructName, CopyDocs, Output, cwd, dir, src, unformatted,
                    runner >>

\* Maker.ParseSource, from its first line to its return.
ParseSource ==
    /\ pc = "called"
    /\ pc' = "returned"
    /\ LET names == IF methods = << >> THEN {} ELSE methodNames
           scan == scanDecls([hasMethods |-> FALSE, funcDecks |-> funcDecks],
                             src.Decls, names)
           reg == registerImports(
                      [byPath |-> importsByPath, byAlias |-> importsByAlias,
                       imports |-> imports,
                       pkgName |-> PkgNameUsedInSourceStruct, err |-> Nil],
                      src.Imports)
           added == addMethods([names |-> names, methods |-> methods],
                               scan.funcDecks, reg.pkgName)
       IN IF src.Bad
          THEN /\ err' = << "parsing file failed" >>
               /\ hasMethods' = FALSE
               /\ methodNames' = names
               /\ UNCHANGED << importsByPath, importsByAlias, imports,
                               PkgNameUsedInSourceStruct, methods, funcDecks >>
          ELSE IF ~scan.hasMethods
          THEN /\ err' = Nil
               /\ hasMethods' = FALSE
               /\ methodNames' = names
               /\ funcDecks' = scan.funcDecks
               /\ UNCHANGED << importsByPath, importsByAlias, imports,
                               PkgNameUsedInSourceStruct, methods >>
          ELSE /\ hasMethods' = TRUE
               /\ funcDecks' = scan.funcDecks
               /\ importsByPath' = reg.byPath
               /\ importsByAlias' = reg.byAlias
               /\ imports' = reg.imports
               /\ PkgNameUsedInSourceStruct' = reg.pkgName
               /\ err' = reg.err
               /\ IF reg.err # Nil
                  THEN methodNames' = names /\ methods' = methods
                  ELSE methodNames' = added.names /\ methods' = added.methods
    /\ nFailed' = IF err' # Nil THEN nFailed + 1 ELSE nFailed
    /\ UNCHANGED << StructName, CopyDocs, Output, cwd, dir, src, unformatted,
                    runner >>

\* The caller takes the result and lets go of the file.
Return ==
    /\ pc = "returned"
    /\ pc' = "idle"
    /\ src' = NoFile
    /\ err' = Nil
    /\ hasMethods' = FALSE
    /\ UNCHANGED << maker, cwd, dir, unformatted, nFailed, runner >>

\* A MakeInterface that empties the method list it has rendered.
MakeInterface_Consuming ==
    /\ pc = "idle"
    /\ unformatted = NoText
    /\ unformatted' = makeInterface(PkgName, IfaceName)
    /\ methods' = << >>
    /\ UNCHANGED << StructName, CopyDocs, Output, PkgNameUsedInSourceStruct,
                    importsByPath, importsByAlias, imports, methodNames,
                    funcDecks, cwd, dir, pc, src, err, hasMethods, nFailed,
                    runner >>

\* Maker.MakeInterface, up to the text it hands to the formatter.
MakeInterface ==
    /\ pc = "idle"
    /\ unformatted = NoText
    /\ unformatted' = makeInterface(PkgName, IfaceName)
    /\ UNCHANGED << maker, cwd, dir, pc, src, err, hasMethods, nFailed, runner >>

Next == ReadFile \/ ParseSource \/ Return \/ MakeInterface

Spec == Init /\ [][Next]_vars

-----------------------------------------------------------------------------
(* The program: run, from its arguments to its exit, and the program run   *)
(* once more with the same arguments.  The failures of os.Stat,            *)
(* ioutil.ReadFile and ioutil.WriteFile are not modelled.                  *)

\* The working directory /w/x.
CwdX == << "/", "w", "/", "x" >>

Cwds == { Cwd, CwdX }

\* The files a command line may name.
RunFiles ==
    { File(<< fdB >>, << ImportSpec(<< "q" >>, << "x" >>) >>),
      File(<< fdB >>, << ImportSpec(<< "r" >>, << "x" >>) >>),
      File(<< fdA2 >>, << ImportSpec(<< "q" >>, << "p" >>) >>),
      File(<< fdc >>, << ImportSpec(<< "q" >>, << "y" >>) >>),
      File(<< fdA1 >>, << >>),
      BadFile }

\* formatCode: the text as imports.Process returns it.  The formatter is
\* outside the program; its result is kept as an application to the text.
formatCode(code) == << "imports.Process(" >> \o code \o << ")" >>

\* run's arguments and the Maker it builds (lines 26-63).
InitRun ==
    /\ StructName = T
    /\ CopyDocs = TRUE
    /\ Output \in Outputs
    /\ PkgNameUsedInSourceStruct = PkgName
    /\ importsByPath = EmptyMap
    /\ importsByAlias = EmptyMap
    /\ imports = << >>
    /\ methods = << >>
    /\ methodNames = {}
    /\ funcDecks = << >>
    /\ cwd \in Cwds
    /\ dir = "args"
    /\ pc = "idle"
    /\ src = NoFile
    /\ err = Nil
    /\ hasMethods = FALSE
    /\ unformatted = NoText
    /\ nFailed = 0
    /\ allFiles \in SeqsUpTo(RunFiles, MaxFiles)
    /\ nextFile = 1
    /\ printed = NoText
    /\ runNo = 1
    /\ first = NoOutcome

\* The loop over allFiles reads the next file and calls ParseSource
\* (lines 65-70).
RunReadFile ==
    /\ pc = "idle"
    /\ nextFile <= Len(allFiles)
    /\ src' = allFiles[nextFile]
    /\ nextFile' = nextFile + 1
    /\ pc' = "called"
    /\ UNCHANGED << maker, cwd, dir, err, hasMethods, unformatted, nFailed,
                    allFiles, printed, runNo, first >>

\* A loop that goes on to the next file whatever ParseSource returned.
RunCheck_GoesOn ==
    /\ pc = "returned"
    /\ pc' = "idle"
    /\ src' = NoFile
    /\ err' = Nil
    /\ hasMethods' = FALSE
    /\ UNCHANGED << maker, cwd, dir, unformatted, nFailed, runner >>

\* The loop looks at what ParseSource returned: log.Fatal on an error, the
\* next iteration otherwise (lines 71-74).
RunCheck ==
    /\ pc = "returned"
    /\ pc' = IF err # Nil THEN "fatal" ELSE "idle"
    /\ src' = NoFile
    /\ hasMethods' = FALSE
    /\ UNCHANGED << maker, cwd, dir, err, unformatted, nFailed, runner >>

\* After the loop: m.MakeInterface (lines 76-79).
RunMakeInterface ==
    /\ pc = "idle"
    /\ nextFile > Len(allFiles)
    /\ unformatted' = makeInterface(PkgName, IfaceName)
    /\ pc' = "rendered"
    /\ UNCHANGED << maker, cwd, dir, src, err, hasMethods, nFailed, runner >>

\* The result goes to standard output or to the file Output (lines 81-88).
RunOutput ==
    /\ pc = "rendered"
    /\ printed' = formatCode(unformatted)
    /\ pc' = "exited"
    /\ UNCHANGED << maker, cwd, dir, src, err, hasMethods, unformatted, nFailed,
                    allFiles, nextFile, runNo, first >>

\* A second run that starts with the source-package alias the first run
\* ended with.
RunAgain_KeepsAlias ==
    /\ pc \in { "exited", "fatal" }
    /\ runNo = 1
    /\ runNo' = 2
    /\ first' = [text |-> printed, err |-> err, cwd |-> cwd]
    /\ cwd' \in Cwds
    /\ importsByPath' = EmptyMap
    /\ importsByAlias' = EmptyMap
    /\ imports' = << >>
    /\ methods' = << >>
    /\ methodNames' = {}
    /\ funcDecks' = << >>
    /\ pc' = "idle"
    /\ src' = NoFile
    /\ err' = Nil
    /\ hasMethods' = FALSE
    /\ unformatted' = NoText
    /\ nFailed' = 0
    /\ nextFile' = 1
    /\ printed' = NoText
    /\ UNCHANGED << StructName, CopyDocs, Output, PkgNameUsedInSourceStruct,
                    dir, allFiles >>

\* The program is run once more with the same arguments, from whatever
\* directory: run builds a new Maker (lines 27-32) and starts over.
RunAgain ==
    /\ pc \in { "exited", "fatal" }
    /\ runNo = 1
    /\ runNo' = 2
    /\ first' = [text |-> printed, err |-> err, cwd |-> cwd]
    /\ cwd' \in Cwds
    /\ PkgNameUsedInSourceStruct' = PkgName
    /\ importsByPath' = EmptyMap
    /\ importsByAlias' = EmptyMap
    /\ imports' = << >>
    /\ methods' = << >>
    /\ methodNames' = {}
    /\ funcDecks' = << >>
    /\ pc' = "idle"
    /\ src' = NoFile
    /\ err' = Nil
    /\ hasMethods' = FALSE
    /\ unformatted' = NoText
    /\ nFailed' = 0
    /\ nextFile' = 1
    /\ printed' = NoText
    /\ UNCHANGED << StructName, CopyDocs, Output, dir, allFiles >>

NextRun ==
    RunReadFile \/ ParseSource \/ RunCheck \/ RunMakeInterface \/ RunOutput
    \/ RunAgain

SpecRun == InitRun /\ [][NextRun]_vars

-----------------------------------------------------------------------------
(* What the properties below are stated with. *)

Range(q) == { q[i] : i \in DOMAIN q }

IsPrefix(q, r) == Len(q) <= Len(r) /\ SubSeq(r, 1, Len(q)) = q

\* A step of ParseSource, from the call to the return.
ParseSourceStep == pc = "called" /\ pc' = "returned"

\* The method name a signature line starts with.
NameOf(code) ==
    LET i == CHOOSE k \in 1..Len(code) :
                 code[k] = "(" /\ \A j \in 1..(k - 1) : code[j] # "("
    IN SubSeq(code, 1, i - 1)

NamesOf(ms) == [i \in 1..Len(ms) |-> NameOf(ms[i].Code)]

\* An exported method of T: one receiver binding of type T or *T and a name
\* that starts with a capital.
IsTargetMethod(d) ==
    /\ d.Kind = "func"
    /\ Len(d.Recv) = 1
    /\ Len(d.Recv[1].Names) <= 1
    /\ d.Recv[1].Type \in { Ident(<< "T" >>), Star(Ident(<< "T" >>)) }
    /\ d.Name \in { << "A" >>, << "B" >>, << "C" >> }

DeclaresTargetMethod(f) == \E d \in Range(f.Decls) : IsTargetMethod(d)

\* The names of the exported methods of T among decls that are not in seen,
\* each once, in the order of their first declaration.
RECURSIVE Discovered(_, _)
Discovered(decls, seen) ==
    IF decls = << >> THEN << >>
    ELSE IF IsTargetMethod(Head(decls)) /\ Head(decls).Name \notin seen
    THEN << Head(decls).Name >>
         \o Discovered(Tail(decls), seen \cup { Head(decls).Name })
    ELSE Discovered(Tail(decls), seen)

\* The lines of the interface body, each after a line break.
RECURSIVE DocBlock(_)
DocBlock(docs) ==
    IF docs = << >> THEN << >>
    ELSE << "\n" >> \o Head(docs) \o DocBlock(Tail(docs))

RECURSIVE MethodBlock(_)
MethodBlock(ms) ==
    IF ms = << >> THEN << >>
    ELSE DocBlock(Head(ms).Docs) \o << "\n" >> \o Head(ms).Code
         \o MethodBlock(Tail(ms))

\* The alias and the path an import spec is written with.
AliasOf(imp) == IF imp.Name = NilIdent THEN << >> ELSE imp.Name
PathOf(imp) == SubSeq(imp.Path, 2, Len(imp.Path) - 1)

IsDot(imp) == AliasOf(imp) = << "." >>
IsSelf(imp) == HasSuffix(targetPath, PathOf(imp))

\* The import is in the list as it is written here.
IsRegistered(imp) ==
    [Path |-> PathOf(imp), Alias |-> AliasOf(imp)] \in Range(imports)

\* An import the registry skips or has already: a dot-import, the
\* self-import, or a path registered under this very alias.
IsInert(imp) == IsDot(imp) \/ IsSelf(imp) \/ IsRegistered(imp)

\* A foreign import of a path the list does not hold, whose alias, if it
\* has one, no entry of the list bears.
IsFresh(imp) ==
    /\ ~IsDot(imp) /\ ~IsSelf(imp)
    /\ \A e \in Range(imports) : e.Path # PathOf(imp)
    /\ AliasOf(imp) # << >> => \A e \in Range(imports) : e.Alias # AliasOf(imp)

\* The file's imports before the k-th are all inert.
InertBefore(k) == \A j \in 1..(k - 1) : IsInert(src.Imports[j])

\* The file's imports before the k-th are inert but for the j-th.
InertBeforeBut(k, j) ==
    \A i \in 1..(k - 1) : i # j => IsInert(src.Imports[i])

\* ParseSource goes on to the file's imports.
Harvests == ~src.Bad /\ DeclaresTargetMethod(src)

Shown(alias) == IF alias = << >> THEN << "<none>" >> ELSE alias

ConflictMessage(path, old, new) ==
    << "Package ", "\"" >> \o path
    \o << "\"", " imported multiple times with different aliases: " >>
    \o Shown(old) \o << ", " >> \o Shown(new)

InUseMessage(alias) == << "Import alias " >> \o alias \o << " already in use" >>

\* The file declares an exported method of T whose name is not collected.
DeclaresNewTargetMethod(f) ==
    \E d \in Range(f.Decls) : IsTargetMethod(d) /\ d.Name \notin methodNames

\* The source-package alias after the imports imps, when the imports whose
\* path ends the directory target are the self-imports: the alias of the
\* last of them that has one, else the alias from before.
RECURSIVE SelfAliasAfter(_, _, _)
SelfAliasAfter(imps, alias, target) ==
    IF imps = << >> THEN alias
    ELSE SelfAliasAfter(
             Tail(imps),
             IF /\ ~IsDot(Head(imps))
                /\ HasSuffix(target, PathOf(Head(imps)))
                /\ AliasOf(Head(imps)) # << >>
             THEN AliasOf(Head(imps)) ELSE alias,
             target)

PathsOf(list) == { e.Path : e \in Range(list) }

NotSelf(imp) == IsDot(imp) \/ ~IsSelf(imp)

SigA1 == << "A", "(", "x", " ", "i", "n", "t", ")", " ", "(", ")" >>
SigA2 == << "A", "(", ")", " ", "(", "i", "n", "t", ")" >>

-----------------------------------------------------------------------------
(* Properties. *)

\* C1: ParseSource never leaves two methods of the same name in the
\* collected list, it keeps every method collected before exactly as it was
\* (a later declaration of a collected name replaces nothing), and a file
\* that parses and imports nothing returns no error, duplicates or not.
C1_FirstWins ==
    [][ParseSourceStep =>
          /\ \A i, j \in 1..Len(methods') :
                 i # j => NameOf(methods'[i].Code) # NameOf(methods'[j].Code)
          /\ IsPrefix(methods, methods')
          /\ (~src.Bad /\ src.Imports = << >> => err' = Nil)]_vars

\* A(x int) was collected first; a later file declared A() (int), and the
\* list still holds the first signature with its doc line.
C1_Witness ==
    /\ pc = "returned"
    /\ src.Decls = << fdA2 >>
    /\ err = Nil
    /\ methods = << [Code |-> SigA1, Docs |-> << << "// A one" >> >>] >>

\* C2: a successful ParseSource of a file that declares an exported method
\* of T appends the newly discovered names in discovery order (what earlier
\* calls left pending, then this file's declarations in their order), and a
\* file that declares none appends nothing; makeInterface's text ends with
\* the methods' lines in the order of the list.
C2_DiscoveryOrder ==
    [][/\ ParseSourceStep /\ ~src.Bad /\ err' = Nil =>
            IF DeclaresTargetMethod(src)
            THEN NamesOf(methods') =
                     NamesOf(methods)
                     \o Discovered(funcDecks \o src.Decls, Range(NamesOf(methods)))
            ELSE methods' = methods
       /\ unformatted' # unformatted /\ unformatted' # NoText =>
            HasSuffix(unformatted',
                      << " interface {" >> \o MethodBlock(methods)
                      \o << "\n", "}" >>)]_vars

\* B came from one file and A from a later one: B, A is the order of the
\* list and of the rendered text.
C2_Witness ==
    /\ pc = "idle"
    /\ Len(methods) = 2
    /\ NameOf(methods[1].Code) = << "B" >>
    /\ NameOf(methods[2].Code) = << "A" >>
    /\ Len(funcDecks) = 2
    /\ unformatted # NoText

\* C3: with nothing pending, a successful ParseSource adds to the names
\* collected exactly the names of the file's methods that have one receiver
\* binding of type T or *T and an exported name; no unexported name and no
\* name of a declaration with another receiver, none, or two receiver
\* bindings is ever in the list.
C3_ExportedOnly ==
    [][ParseSourceStep /\ ~src.Bad /\ err' = Nil
       /\ (\A i \in 1..Len(funcDecks) : funcDecks[i].Name \in methodNames) =>
          /\ Range(NamesOf(methods')) =
                 Range(NamesOf(methods))
                 \cup { d.Name : d \in { e \in Range(src.Decls) : IsTargetMethod(e) } }
          /\ Range(NamesOf(methods')) \subseteq { << "A" >>, << "B" >> }]_vars

\* A file with the unexported c and the exported B of T: B alone is in.
C3_Witness ==
    /\ pc = "returned"
    /\ src.Decls = << fdc, fdB >>
    /\ Len(methods) = 1
    /\ NameOf(methods[1].Code) = << "B" >>

\* C4: when ParseSource goes on to a file's imports and reaches a foreign
\* import of a path that is registered under another alias (before the call,
\* or by an earlier import of this file), it returns the alias-conflict
\* error naming the path, the registered alias and the new one in this
\* order, "<none>" standing for no alias.
C4_AliasConflict ==
    [][ParseSourceStep /\ Harvests =>
          \A k \in 1..Len(src.Imports) :
              LET imp == src.Imports[k]
              IN ~IsDot(imp) /\ ~IsSelf(imp) =>
                   /\ InertBefore(k) =>
                        \A e \in Range(imports) :
                            e.Path = PathOf(imp) /\ e.Alias # AliasOf(imp) =>
                                err' = ConflictMessage(e.Path, e.Alias, AliasOf(imp))
                   /\ \A j \in 1..(k - 1) :
                        /\ IsFresh(src.Imports[j])
                        /\ InertBeforeBut(k, j)
                        /\ PathOf(src.Imports[j]) = PathOf(imp)
                        /\ AliasOf(src.Imports[j]) # AliasOf(imp)
                        => err' = ConflictMessage(PathOf(imp),
                                                  AliasOf(src.Imports[j]),
                                                  AliasOf(imp))]_vars

\* "x" was registered as q by an earlier file; this file imports it without
\* an alias.
C4_Witness ==
    /\ pc = "returned"
    /\ src.Imports = << ImportSpec(NilIdent, << "x" >>) >>
    /\ imports = << [Path |-> << "x" >>, Alias |-> << "q" >>] >>
    /\ err = << "Package ", "\"", "x", "\"",
                " imported multiple times with different aliases: ",
                "q", ", ", "<none>" >>

\* C5: when ParseSource goes on to a file's imports and reaches a foreign
\* import of an unregistered path under a non-empty alias that another
\* registered path bears (from before the call, or from an earlier import of
\* this file), it returns the alias-in-use error naming the alias and the
\* path is not registered; an unregistered path imported without an alias is
\* registered whatever else is imported without one, and no alias-in-use
\* error ever names the empty alias.
C5_AliasInUse ==
    [][ParseSourceStep /\ Harvests =>
          /\ err' # InUseMessage(<< >>)
          /\ \A k \in 1..Len(src.Imports) :
               LET imp == src.Imports[k]
                   unregistered == \A e \in Range(imports) : e.Path # PathOf(imp)
                   refused == /\ err' = InUseMessage(AliasOf(imp))
                              /\ \A e \in Range(imports') : e.Path # PathOf(imp)
                              /\ PathOf(imp) \notin DOMAIN importsByPath'
               IN ~IsDot(imp) /\ ~IsSelf(imp) /\ unregistered =>
                    /\ InertBefore(k) /\ AliasOf(imp) # << >>
                       /\ (\E e \in Range(imports) : e.Alias = AliasOf(imp))
                       => refused
                    /\ \A j \in 1..(k - 1) :
                         /\ IsFresh(src.Imports[j])
                         /\ InertBeforeBut(k, j)
                         /\ PathOf(src.Imports[j]) # PathOf(imp)
                         /\ AliasOf(src.Imports[j]) = AliasOf(imp)
                         /\ AliasOf(imp) # << >>
                         => refused
                    /\ InertBefore(k) /\ AliasOf(imp) = << >> =>
                         [Path |-> PathOf(imp), Alias |-> << >>] \in Range(imports')]_vars

\* "x" was registered as q; a later file imports "y" as q.
C5_Witness ==
    /\ pc = "returned"
    /\ src.Imports = << ImportSpec(<< "q" >>, << "y" >>) >>
    /\ imports = << [Path |-> << "x" >>, Alias |-> << "q" >>] >>
    /\ err = << "Import alias ", "q", " already in use" >>

\* C6: the import list never holds a path twice nor a non-empty alias
\* twice.
C6_ImportsUnique ==
    \A i, j \in 1..Len(imports) :
        i # j =>
          /\ imports[i].Path # imports[j].Path
          /\ imports[i].Alias # << >> => imports[i].Alias # imports[j].Alias

\* Two imports are registered and two calls have failed.
C6_Witness ==
    /\ Len(imports) = 2
    /\ nFailed = 2
    /\ imports[1].Alias # << >>
    /\ imports[2].Alias # << >>

\* C7 as the specification states it: ParseSource goes on to a file's
\* imports when the file declares an exported method of T whose name is not
\* collected yet, and only then: a file without one registers no import and
\* returns no error.
C7_HarvestIffContributed ==
    [][ParseSourceStep /\ ~src.Bad =>
          /\ DeclaresNewTargetMethod(src) => hasMethods'
          /\ ~DeclaresNewTargetMethod(src) => imports' = imports /\ err' = Nil]_vars

\* C7, amended: ParseSource goes on to a file's imports if and only if the
\* file declares an exported method of T, collected already or not; it then
\* registers a first import that is fresh and returns an error for a first
\* import whose path is registered under another alias.
C7_HarvestIffDeclares ==
    [][ParseSourceStep /\ ~src.Bad =>
          /\ hasMethods' <=> DeclaresTargetMethod(src)
          /\ DeclaresTargetMethod(src) /\ src.Imports # << >> =>
               LET imp == src.Imports[1]
               IN /\ IsFresh(imp) =>
                       [Path |-> PathOf(imp), Alias |-> AliasOf(imp)]
                           \in Range(imports')
                  /\ ~IsDot(imp) /\ ~IsSelf(imp)
                     /\ (\E e \in Range(imports) :
                             e.Path = PathOf(imp) /\ e.Alias # AliasOf(imp))
                     => err' # Nil]_vars

\* B was collected from an earlier file that imported "x" as q; this file
\* declares B again, imports "x" as r, and fails.
C7_Witness ==
    /\ pc = "returned"
    /\ hasMethods
    /\ src = File(<< fdB >>, << ImportSpec(<< "r" >>, << "x" >>) >>)
    /\ funcDecks = << fdB >>
    /\ Len(methods) = 1
    /\ nFailed = 1
    /\ err # Nil

\* C8: ParseSource of a file that parses and declares no exported method of
\* T returns nil and leaves the method list, the import list, both indexes
\* and the source-package alias as they were, whatever the file imports.
C8_NoMethodsNoChange ==
    [][ParseSourceStep /\ ~src.Bad /\ ~DeclaresTargetMethod(src) =>
          /\ err' = Nil
          /\ UNCHANGED << methods, imports, importsByPath, importsByAlias,
                          PkgNameUsedInSourceStruct >>]_vars

\* "x" is registered as q; a file that declares only the unexported c
\* imports "x" as r and "y" as q, and nothing happens.
C8_Witness ==
    /\ pc = "returned"
    /\ src = File(<< fdc >>, << ImportSpec(<< "r" >>, << "x" >>),
                               ImportSpec(<< "q" >>, << "y" >>) >>)
    /\ imports = << [Path |-> << "x" >>, Alias |-> << "q" >>] >>
    /\ err = Nil

\* C9 as the specification states it: without -o no import is the
\* self-import; the source-package alias never changes and every import
\* that is no dot-import is in the list once ParseSource has returned nil.
C9_NoOutputNoSelfImport ==
    [][ParseSourceStep /\ Harvests /\ Output = EmptyStr =>
          /\ PkgNameUsedInSourceStruct' = PkgNameUsedInSourceStruct
          /\ err' = Nil =>
               \A k \in 1..Len(src.Imports) :
                   ~IsDot(src.Imports[k]) =>
                       PathOf(src.Imports[k]) \in PathsOf(imports')]_vars

\* C9, amended: without -o the target is the working directory.  An import
\* that is no dot-import and whose path ends the working directory is the
\* self-import: its path is in no list or index, and its alias, if it has
\* one, is the source-package alias once ParseSource has returned nil.
\* Every other import that is no dot-import is foreign: its path is in the
\* list once ParseSource has returned nil.
C9_NoOutputCwdIsTarget ==
    [][ParseSourceStep /\ Harvests /\ Output = EmptyStr =>
          /\ \A k \in 1..Len(src.Imports) :
               LET imp == src.Imports[k]
               IN ~IsDot(imp) =>
                    IF HasSuffix(cwd, PathOf(imp))
                    THEN /\ PathOf(imp) \notin PathsOf(imports')
                         /\ PathOf(imp) \notin DOMAIN importsByPath'
                    ELSE err' = Nil => PathOf(imp) \in PathsOf(imports')
          /\ err' = Nil =>
               PkgNameUsedInSourceStruct' =
                   SelfAliasAfter(src.Imports, PkgNameUsedInSourceStruct, cwd)]_vars

\* Without -o, in /w/p, a file imports "p" as q: nothing is registered and
\* q is the source-package alias.
C9_Witness ==
    /\ pc = "returned"
    /\ Output = EmptyStr
    /\ hasMethods
    /\ src.Imports = << ImportSpec(<< "q" >>, << "p" >>) >>
    /\ err = Nil
    /\ imports = << >>
    /\ PkgNameUsedInSourceStruct = << "q" >>

\* C10: ParseSource leaves the import list, both indexes and the error as
\* the file without its self-imports would leave them; no list or index
\* ever holds a path that ends the target directory; and once ParseSource
\* has returned nil the source-package alias is the alias of the file's last
\* self-import that has one, or what it was.
C10_SelfImport ==
    [][ParseSourceStep /\ Harvests =>
          LET r == registerImports(
                       [byPath |-> importsByPath, byAlias |-> importsByAlias,
                        imports |-> imports,
                        pkgName |-> PkgNameUsedInSourceStruct, err |-> Nil],
                       SelectSeq(src.Imports, NotSelf))
          IN /\ imports' = r.imports
             /\ importsByPath' = r.byPath
             /\ importsByAlias' = r.byAlias
             /\ err' = r.err
             /\ \A e \in Range(imports') : ~HasSuffix(targetPath, e.Path)
             /\ \A q \in DOMAIN importsByPath' : ~HasSuffix(targetPath, q)
             /\ \A a \in DOMAIN importsByAlias' :
                    ~HasSuffix(targetPath, importsByAlias'[a].Path)
             /\ err' = Nil =>
                  PkgNameUsedInSourceStruct' =
                      SelfAliasAfter(src.Imports, PkgNameUsedInSourceStruct,
                                     targetPath)]_vars

\* "x" is registered as q by this file's first import; its second imports
\* the target's own package "p" as q too: no error, no entry for "p", and q
\* is the source-package alias.
C10_Witness ==
    /\ pc = "returned"
    /\ src.Imports = << ImportSpec(<< "q" >>, << "x" >>),
                        ImportSpec(<< "q" >>, << "p" >>) >>
    /\ hasMethods
    /\ err = Nil
    /\ imports = << [Path |-> << "x" >>, Alias |-> << "q" >>] >>
    /\ DOMAIN importsByAlias = { << "q" >> }
    /\ PkgNameUsedInSourceStruct = << "q" >>

-----------------------------------------------------------------------------
(* What the properties of the registry's order, of the signatures and of   *)
(* the rendered text are stated with.                                      *)

NotDot(imp) == ~IsDot(imp)

\* The registry as ParseSource finds it.
RegistryBefore ==
    [byPath |-> importsByPath, byAlias |-> importsByAlias, imports |-> imports,
     pkgName |-> PkgNameUsedInSourceStruct, err |-> Nil]

\* The place of the first import of the file, other than a dot-import, that
\* names the path; 0 when there is none.
FirstImportOf(path) ==
    LET at == { k \in 1..Len(src.Imports) :
                    ~IsDot(src.Imports[k]) /\ PathOf(src.Imports[k]) = path }
    IN IF at = {} THEN 0 ELSE CHOOSE k \in at : \A j \in at : k <= j

\* text holds part at some place.
Contains(text, part) ==
    \E k \in 0..(Len(text) - Len(part)) :
        SubSeq(text, k + 1, k + Len(part)) = part

\* What the rendered text starts with, up to the opening of the import block.
Header ==
    << "// Code generated by ifacemaker. DO NOT EDIT.", "\n", "\n",
       "package ", "m", "\n", "import (" >>

\* One line per entry of the list: the alias, a space, the quoted path.
RECURSIVE ImportBlock(_)
ImportBlock(list) ==
    IF list = << >> THEN << >>
    ELSE << "\n" >> \o Head(list).Alias \o << " ", "\"" >> \o Head(list).Path
         \o << "\"" >> \o ImportBlock(Tail(list))

\* The first exported method of T among decls that bears the name.
DeclOf(name, decls) ==
    LET at == { k \in 1..Len(decls) :
                    IsTargetMethod(decls[k]) /\ decls[k].Name = name }
    IN decls[CHOOSE k \in at : \A j \in at : k <= j]

\* The qualifiers written in the parameter and result types of d.
Qualifiers(d) ==
    { t.X : t \in { f.Type : f \in Range(d.Params) \cup Range(d.Results) }
                  \cap { Sel(x, n) : x \in { << "q" >>, << "r" >> },
                                     n \in { << "W" >> } } }
    \cup { t.X.X : t \in { f.Type : f \in Range(d.Params) \cup Range(d.Results) }
                       \cap { Star(Sel(x, n)) : x \in { << "q" >>, << "r" >> },
                                                n \in { << "W" >> } } }

\* A type as the signature shows it when the types written strip.Name lose
\* their qualifier and every other type is shown as written.
RECURSIVE AsWritten(_)
AsWritten(t) ==
    IF t.Tag = "Ident" THEN t.Name
    ELSE IF t.Tag = "Star" THEN << "*" >> \o AsWritten(t.X)
    ELSE IF t.Tag = "Sel" THEN t.X \o << "." >> \o t.Name
    ELSE AsWritten(t.X) \o << "[" >> \o t.Arg \o << "]" >>

TypeText(t, strip) ==
    IF t.Tag = "Sel" /\ t.X = strip THEN t.Name ELSE AsWritten(t)

RECURSIVE NamesText(_)
NamesText(names) ==
    IF names = << >> THEN << >>
    ELSE Head(names) \o (IF Len(names) > 1 THEN << "," >> ELSE << " " >>)
         \o NamesText(Tail(names))

RECURSIVE FieldsText(_, _)
FieldsText(fl, strip) ==
    IF fl = << >> THEN << >>
    ELSE NamesText(Head(fl).Names) \o TypeText(Head(fl).Type, strip)
         \o (IF Len(fl) > 1 THEN << "," >> ELSE << >>)
         \o FieldsText(Tail(fl), strip)

\* The signature line of d: name(parameters) (results).
Signature(d, strip) ==
    d.Name \o << "(" >> \o FieldsText(d.Params, strip) \o << ")", " ", "(" >>
    \o FieldsText(d.Results, strip) \o << ")" >>

\* Nothing is pending from an earlier call.
NothingPending == \A i \in 1..Len(funcDecks) : funcDecks[i].Name \in methodNames

\* The places in the list after the call of the methods the call appended.
Appended == (Len(methods) + 1)..Len(methods')

-----------------------------------------------------------------------------
(* Properties of the registry's order and of the signatures. *)

\* C11: ParseSource leaves the import list, both indexes, the source-package
\* alias and the error as the file without its dot-imports would leave them;
\* no entry of the list or of an index bears the alias "."; and a file
\* whose imports are all dot-imports returns nil and registers nothing,
\* whatever is registered already.
C11_DotImportIgnored ==
    [][ParseSourceStep /\ Harvests =>
          LET r == registerImports(RegistryBefore, SelectSeq(src.Imports, NotDot))
          IN /\ imports' = r.imports
             /\ importsByPath' = r.byPath
             /\ importsByAlias' = r.byAlias
             /\ PkgNameUsedInSourceStruct' = r.pkgName
             /\ err' = r.err
             /\ \A e \in Range(imports') : e.Alias # << "." >>
             /\ << "." >> \notin DOMAIN importsByAlias'
             /\ \A q \in DOMAIN importsByPath' : importsByPath'[q].Alias # << "." >>
             /\ (\A k \in 1..Len(src.Imports) : IsDot(src.Imports[k])) =>
                    /\ err' = Nil
                    /\ UNCHANGED << imports, importsByPath, importsByAlias >>]_vars

\* "x" is registered as q; a later file dot-imports "x": no error, and the
\* list is as it was.
C11_Witness ==
    /\ pc = "returned"
    /\ hasMethods
    /\ src.Imports = << ImportSpec(<< "." >>, << "x" >>) >>
    /\ imports = << [Path |-> << "x" >>, Alias |-> << "q" >>] >>
    /\ DOMAIN importsByPath = { << "x" >> }
    /\ err = Nil

\* C12: when nothing is pending, a method that a successful ParseSource
\* collects from a file is rendered with every type as written if each
\* qualifier in its parameter and result types is the alias of a registered
\* import and the file does not itself import the target's package under
\* that alias; whatever earlier files set the source-package alias to.
C12_ForeignQualifierKept ==
    [][ParseSourceStep /\ Harvests /\ err' = Nil /\ NothingPending =>
          \A i \in Appended :
              LET d == DeclOf(NameOf(methods'[i].Code), src.Decls)
              IN (\A a \in Qualifiers(d) :
                      /\ \E e \in Range(imports') : e.Alias = a
                      /\ \A k \in 1..Len(src.Imports) :
                             ~(/\ ~IsDot(src.Imports[k])
                               /\ IsSelf(src.Imports[k])
                               /\ AliasOf(src.Imports[k]) = a))
                 => methods'[i].Code = Signature(d, << >>)]_vars

C14_ImportOrder ==
    [][/\ ParseSourceStep /\ Harvests =>
            /\ IsPrefix(imports, imports')
            /\ \A i \in (Len(imports) + 1)..Len(imports') :
                   /\ FirstImportOf(imports'[i].Path) > 0
                   /\ \A j \in (i + 1)..Len(imports') :
                          FirstImportOf(imports'[i].Path)
                              < FirstImportOf(imports'[j].Path)
            /\ (\A k \in 1..Len(src.Imports) : IsInert(src.Imports[k])) =>
                   /\ err' = Nil
                   /\ UNCHANGED << imports, importsByPath >>
       /\ unformatted' # unformatted /\ unformatted' # NoText =>
            IsPrefix(Header \o ImportBlock(imports) \o << "\n", ")", "\n" >>,
                     unformatted')]_vars

\* "y" and then "x" as q were registered by one file; a later file imports
\* "x" as q and "y" again, in the other order, and the list is as it was.
C14_Witness ==
    /\ pc = "returned"
    /\ hasMethods
    /\ src.Imports = << ImportSpec(<< "q" >>, << "x" >>),
                        ImportSpec(NilIdent, << "y" >>) >>
    /\ imports = << [Path |-> << "y" >>, Alias |-> << >>],
                    [Path |-> << "x" >>, Alias |-> << "q" >>] >>
    /\ err = Nil

-----------------------------------------------------------------------------
(* Properties of the accumulator as a whole. *)

\* An exported method of T whose name is not collected.
IsUncollected(d) == IsTargetMethod(d) /\ d.Name \notin methodNames

\* The doc lines the declarations of the model carry.
DocLines == UNION { Range(d.Doc) : d \in { e \in Decls : e.Kind = "func" } }

\* C16: a ParseSource that returns nil keeps the method list and the import
\* list as prefixes of the lists after the call, keeps every collected name,
\* and keeps every entry of the path index and every entry of the alias
\* index under a non-empty alias as it was.
C16_AppendOnly ==
    [][ParseSourceStep /\ err' = Nil =>
          /\ IsPrefix(methods, methods')
          /\ IsPrefix(imports, imports')
          /\ methodNames \subseteq methodNames'
          /\ \A q \in DOMAIN importsByPath :
                 q \in DOMAIN importsByPath' /\ importsByPath'[q] = importsByPath[q]
          /\ \A a \in DOMAIN importsByAlias :
                 a # << >> =>
                     a \in DOMAIN importsByAlias'
                     /\ importsByAlias'[a] = importsByAlias[a]]_vars

\* "x" as q and B are in from an earlier file; this file registers "y"
\* behind "x".
C16_Witness ==
    /\ pc = "returned"
    /\ hasMethods
    /\ err = Nil
    /\ src.Imports = << ImportSpec(NilIdent, << "y" >>) >>
    /\ imports = << [Path |-> << "x" >>, Alias |-> << "q" >>],
                    [Path |-> << "y" >>, Alias |-> << >>] >>
    /\ Len(methods) = 1
    /\ nFailed = 0

\* C17: every method a successful ParseSource appends has no doc lines when
\* CopyDocs is off and exactly the doc lines of its declaration, in their
\* order, when it is on; the text makeInterface builds holds, for every
\* method, its doc lines one per line and then its signature line, and
\* holds no doc line at all when CopyDocs is off.
C17_DocToggle ==
    [][/\ ParseSourceStep /\ ~src.Bad /\ err' = Nil =>
            \A i \in Appended :
                LET d == DeclOf(NameOf(methods'[i].Code), funcDecks \o src.Decls)
                IN methods'[i].Docs = IF CopyDocs THEN d.Doc ELSE << >>
       /\ unformatted' # unformatted /\ unformatted' # NoText =>
            /\ \A i \in 1..Len(methods) :
                   Contains(unformatted',
                            DocBlock(methods[i].Docs) \o << "\n" >>
                            \o methods[i].Code \o << "\n" >>)
            /\ ~CopyDocs =>
                   \A k \in 1..Len(unformatted') :
                       << unformatted'[k] >> \notin DocLines]_vars

\* With -d off, B, whose declaration carries two doc lines, is collected
\* without them and rendered.
C17_Witness ==
    /\ ~CopyDocs
    /\ unformatted # NoText
    /\ Len(methods) = 1
    /\ NameOf(methods[1].Code) = << "B" >>
    /\ methods[1].Docs = << >>
    /\ funcDecks = << fdB >>

\* C19: MakeInterface leaves every field of the Maker as it was, the text
\* it returns is the text a second call would return, and the call of
\* ParseSource that follows a render starts from that same Maker.
C19_RenderReadsOnly ==
    [][/\ unformatted' # unformatted /\ unformatted' # NoText =>
            /\ UNCHANGED maker
            /\ makeInterface(PkgName, IfaceName)' = unformatted'
       /\ unformatted # NoText /\ pc = "idle" /\ pc' = "called" =>
            UNCHANGED maker]_vars

\* Two imports and B have been rendered and are still in the Maker.
C19_Witness ==
    /\ pc = "idle"
    /\ unformatted # NoText
    /\ Len(imports) = 2
    /\ Len(methods) = 1
    /\ methodNames = { << "B" >> }
    /\ unformatted = makeInterface(PkgName, IfaceName)

\* C20: a ParseSource that returns an import error leaves the method list
\* and the collected names as they were; the file's exported methods of T
\* with uncollected names are appended to the pending declarations; and the
\* import list keeps what it had and, when the file's first import was
\* fresh, that import.
C20_FailedCallKeepsMethods ==
    [][ParseSourceStep /\ ~src.Bad /\ err' # Nil =>
          /\ methods' = methods
          /\ methodNames' = methodNames
          /\ funcDecks' = funcDecks \o SelectSeq(src.Decls, IsUncollected)
          /\ IsPrefix(imports, imports')
          /\ IsFresh(src.Imports[1]) => IsRegistered(src.Imports[1])']_vars

\* Two files declaring B have failed on their second import: nothing is
\* collected, both declarations are pending and each file's first import is
\* registered.
C20_Witness ==
    /\ pc = "returned"
    /\ err # Nil
    /\ nFailed = 2
    /\ methods = << >>
    /\ methodNames = {}
    /\ funcDecks = << fdB, fdB >>
    /\ imports = << [Path |-> << "x" >>, Alias |-> << "q" >>],
                    [Path |-> << "y" >>, Alias |-> << >>] >>

-----------------------------------------------------------------------------
(* Properties of the program, under SpecRun. *)

\* The run has ended.
Ended == pc \in { "exited", "fatal" }

\* C15: run hands ParseSource the files of allFiles one by one in their
\* order, each call returning before the next file is read; it renders only
\* when every file has been processed and none has failed; when ParseSource
\* returns an error the run ends there, and a run that ended so has read no
\* further file, rendered nothing and printed nothing.
C15_FailFast ==
    [][/\ pc = "idle" /\ pc' = "called" =>
            /\ nextFile <= Len(allFiles)
            /\ src' = allFiles[nextFile]
            /\ nextFile' = nextFile + 1
       /\ pc = "called" => pc' = "returned" /\ nextFile' = nextFile
       /\ pc = "returned" /\ err # Nil => pc' = "fatal"
       /\ unformatted = NoText /\ unformatted' # NoText =>
            nextFile > Len(allFiles) /\ nFailed = 0
       /\ pc' = "fatal" =>
            /\ unformatted' = NoText
            /\ printed' = NoText
            /\ nFailed' = 1
       /\ pc = "fatal" /\ runNo' = runNo =>
            UNCHANGED << maker, src, nextFile, unformatted, printed >>
       /\ printed' # NoText => printed' = formatCode(unformatted') /\ nFailed' = 0
      ]_vars

\* The second of three files failed: the run has ended, the third file is
\* unread and nothing was rendered or printed.
C15_Witness ==
    /\ pc = "fatal"
    /\ runNo = 1
    /\ Len(allFiles) = 3
    /\ nextFile = 3
    /\ Len(methods) = 1
    /\ unformatted = NoText
    /\ printed = NoText

=============================================================================
